---- MODULE Spec2Model ----
(***************************************************************************)
(* A model of the Next.js beginner application: the server-side rendered   *)
(* page pages/posts/[id].js (getServerSideProps and Post), the static      *)
(* pages (Home, ImageOptimization, About with getStaticProps) and the API  *)
(* route handler.  The remote content service is the environment.          *)
(***************************************************************************)
EXTENDS Integers, Sequences, FiniteSets, TLC

(***************************************************************************)
(* Bounds of the model.                                                    *)
(***************************************************************************)
\* Requests of any kind the server accepts in one behaviour.
MaxRequests == 3
\* Page requests that may be in progress at the same time.
MaxConcurrent == 2

Req == 1..MaxConcurrent

(***************************************************************************)
(* State.                                                                  *)
(***************************************************************************)
None == [t |-> "none"]

VARIABLES
    pc,         \* per page request: idle, fetching, decoding, returned, rendered, error
    params,     \* per page request: the route parameters { id }
    res,        \* per page request: the Response the fetch resolved to
    props,      \* per page request: what getServerSideProps returned
    output,     \* per page request: the element Post returned
    err,        \* per page request: the error the request ended with
    net,        \* outbound reads awaiting an answer
    outbound,   \* every outbound read issued so far, in order
    accepted,   \* requests accepted so far, of any kind
    requests,   \* the id of every request to the dynamic page so far, in order
    apiRes,     \* the API route's last request and the response to it
    staticSeen, \* per static page: the outputs it has produced
    aboutProps  \* what getStaticProps resolved to, until About is called with it

vars == <<pc, params, res, props, output, err, net, outbound, accepted, requests,
          apiRes, staticSeen, aboutProps>>

ssrVars == <<pc, params, res, props, output, err, net, outbound, requests>>

(***************************************************************************)
(* JavaScript values, as far as JSON.parse can produce them, and undefined.*)
(***************************************************************************)
Undefined == [t |-> "undefined"]
Null == [t |-> "null"]
Bool(b) == [t |-> "bool", b |-> b]
Num(n) == [t |-> "num", n |-> n]
Str(s) == [t |-> "str", s |-> s]
Obj(f) == [t |-> "obj", f |-> f]
Arr(e) == [t |-> "arr", e |-> e]
EmptyObj == Obj([k \in {} |-> Undefined])

\* ToBoolean, as applied by `!post`: undefined, null, false, 0 and "" are falsy.
Truthy(v) ==
    CASE v.t = "undefined" -> FALSE
      [] v.t = "null" -> FALSE
      [] v.t = "bool" -> v.b
      [] v.t = "num" -> v.n # 0
      [] v.t = "str" -> v.s # ""
      [] OTHER -> TRUE

\* Property read `v.k` on a truthy value: own property of an object, else undefined.
GetProp(v, k) ==
    IF v.t = "obj" /\ k \in DOMAIN v.f THEN v.f[k] ELSE Undefined

(***************************************************************************)
(* A response body is the sequence of lexical tokens of its text.          *)
(***************************************************************************)
P(c) == [k |-> "punct", c |-> c]
L(w) == [k |-> "lit", w |-> w]
N(n) == [k |-> "num", n |-> n]
S(s) == [k |-> "str", s |-> s]
J(c) == [k |-> "junk", c |-> c]

IsP(toks, i, c) == i <= Len(toks) /\ toks[i].k = "punct" /\ toks[i].c = c

ParseFail == [ok |-> FALSE]
ParseOk(v, n) == [ok |-> TRUE, v |-> v, n |-> n]

RECURSIVE ParseValue(_, _)
RECURSIVE ParseMembers(_, _, _)
RECURSIVE ParseElements(_, _, _)

\* Members of an object after "{" or ",": "key" : value, then "," or "}".
\* A repeated key keeps the last value.
ParseMembers(toks, i, acc) ==
    IF i + 1 <= Len(toks) /\ toks[i].k = "str" /\ IsP(toks, i + 1, ":")
    THEN LET r == ParseValue(toks, i + 2) IN
         IF ~r.ok THEN ParseFail
         ELSE LET key == toks[i].s
                  acc2 == [x \in DOMAIN acc \cup {key} |->
                              IF x = key THEN r.v ELSE acc[x]]
              IN IF IsP(toks, r.n, "}") THEN ParseOk(Obj(acc2), r.n + 1)
                 ELSE IF IsP(toks, r.n, ",") THEN ParseMembers(toks, r.n + 1, acc2)
                 ELSE ParseFail
    ELSE ParseFail

\* Elements of an array after "[" or ",": value, then "," or "]".
ParseElements(toks, i, acc) ==
    LET r == ParseValue(toks, i) IN
    IF ~r.ok THEN ParseFail
    ELSE IF IsP(toks, r.n, "]") THEN ParseOk(Arr(Append(acc, r.v)), r.n + 1)
    ELSE IF IsP(toks, r.n, ",") THEN ParseElements(toks, r.n + 1, Append(acc, r.v))
    ELSE ParseFail

ParseValue(toks, i) ==
    IF i > Len(toks) THEN ParseFail
    ELSE LET tk == toks[i] IN
         CASE tk.k = "lit" ->
                   (CASE tk.w = "null" -> ParseOk(Null, i + 1)
                      [] tk.w = "true" -> ParseOk(Bool(TRUE), i + 1)
                      [] tk.w = "false" -> ParseOk(Bool(FALSE), i + 1)
                      [] OTHER -> ParseFail)
           [] tk.k = "num" -> ParseOk(Num(tk.n), i + 1)
           [] tk.k = "str" -> ParseOk(Str(tk.s), i + 1)
           [] tk.k = "punct" /\ tk.c = "{" ->
                   IF IsP(toks, i + 1, "}") THEN ParseOk(EmptyObj, i + 2)
                   ELSE ParseMembers(toks, i + 1, [k \in {} |-> Undefined])
           [] tk.k = "punct" /\ tk.c = "[" ->
                   IF IsP(toks, i + 1, "]") THEN ParseOk(Arr(<<>>), i + 2)
                   ELSE ParseElements(toks, i + 1, <<>>)
           [] OTHER -> ParseFail

\* JSON.parse of a whole body: one value and nothing after it, else SyntaxError.
JSONParse(toks) ==
    LET r == ParseValue(toks, 1) IN
    IF r.ok /\ r.n = Len(toks) + 1 THEN [ok |-> TRUE, v |-> r.v] ELSE ParseFail

\* JSON.stringify of a flat object given as its <<key, value token>> pairs in order.
RECURSIVE StringifyMembers(_)
StringifyMembers(pairs) ==
    IF pairs = <<>> THEN <<>>
    ELSE <<S(pairs[1][1]), P(":"), pairs[1][2]>>
         \o (IF Len(pairs) > 1 THEN <<P(",")>> ELSE <<>>)
         \o StringifyMembers(Tail(pairs))

JSONStringify(pairs) == <<P("{")>> \o StringifyMembers(pairs) \o <<P("}")>>

(***************************************************************************)
(* React elements returned by the page components.                         *)
(***************************************************************************)
Elem(tag, children) == [t |-> "elem", tag |-> tag, children |-> children]
ElemP(tag, attrs) == [t |-> "elem", tag |-> tag, props |-> attrs]

\* Post with the two fields exchanged.
PostSwapped(pr) ==
    LET post == pr.post IN
    IF ~Truthy(post)
    THEN Elem("div", <<Str("Loading...")>>)
    ELSE Elem("div", <<Elem("h1", <<GetProp(post, "body")>>),
                       Elem("p", <<GetProp(post, "title")>>)>>)

\* pages/posts/[id].js, the page component.
Post(pr) ==
    LET post == pr.post IN
    IF ~Truthy(post)
    THEN Elem("div", <<Str("Loading...")>>)
    ELSE Elem("div", <<Elem("h1", <<GetProp(post, "title")>>),
                       Elem("p", <<GetProp(post, "body")>>)>>)

\* A home page that shows how many requests came before it.
HomeCounting ==
    Elem("div", <<Elem("h1", <<Str("Welcome to Next.js!")>>),
                  Elem("p", <<Str("This is the home page."), Num(accepted)>>),
                  ElemP("Image", [src |-> "../public/nextjs.png", alt |-> "Next.js Logo",
                                  width |-> 200, height |-> 200])>>)

\* pages/index.js
Home ==
    Elem("div", <<Elem("h1", <<Str("Welcome to Next.js!")>>),
                  Elem("p", <<Str("This is the home page.")>>),
                  ElemP("Image", [src |-> "../public/nextjs.png", alt |-> "Next.js Logo",
                                  width |-> 200, height |-> 200])>>)

\* pages/image-optimization.js
ImageOptimization ==
    Elem("div", <<Elem("h1", <<Str("Next.js Image Optimization")>>),
                  Elem("p", <<Str("This page demonstrates optimized image loading with Next.js.")>>),
                  ElemP("Image", [src |-> "/nextjs.png", alt |-> "Optimized Image",
                                  width |-> 400, height |-> 300, priority |-> TRUE])>>)

\* pages/about.js
getStaticProps == [props |-> [n \in {} |-> Undefined]]

About(pr) ==
    Elem("div", <<Elem("h1", <<Str("About Us")>>),
                  Elem("p", <<Str("This page is statically generated.")>>)>>)

\* A handler that answers GET only.
handlerGetOnly(req) ==
    IF req.method = "GET"
    THEN [status |-> 200, body |-> JSONStringify(<< <<"text", S("Hello from Next.js API!")>> >>)]
    ELSE [status |-> 405, body |-> JSONStringify(<< <<"text", S("Method Not Allowed")>> >>)]

\* pages/api/hello.js: res.status(200).json({ text: 'Hello from Next.js API!' })
handler(req) ==
    [status |-> 200, body |-> JSONStringify(<< <<"text", S("Hello from Next.js API!")>> >>)]

(***************************************************************************)
(* getServerSideProps: the address of the outbound read and the decoding   *)
(* of its answer.                                                          *)
(***************************************************************************)
\* A string is the sequence of its pieces: the origin and the word "posts"
\* as one piece each, every other character on its own.  The route parameters
\* are strings over letters, digits, "/", ".", "?", "=" and the space.
Origin == "https://jsonplaceholder.typicode.com"

RECURSIVE Text(_)
\* The pieces written out as one string.
Text(str) == IF str = <<>> THEN "" ELSE str[1] \o Text(Tail(str))

\* An address that ignores the route parameter.
FetchUrlFixed(ps) == <<Origin, "/", "posts", "/", "1">>

\* An address built only from ids that look like numbers.
FetchUrlValidated(ps) ==
    IF ps.id \in {<<"1">>, <<"2">>, <<"9", "9", "9", "9", "9", "9", "9", "9", "9">>}
    THEN <<Origin, "/", "posts", "/">> \o ps.id
    ELSE <<Origin, "/", "posts", "/">>

\* The template literal `https://jsonplaceholder.typicode.com/posts/${params.id}`.
FetchUrl(ps) == <<Origin, "/", "posts", "/">> \o ps.id

(***************************************************************************)
(* fetch(input): the string is parsed as a URL, and the read is a GET of   *)
(* the parsed address.                                                     *)
(***************************************************************************)
RECURSIVE StripSpaces(_)
\* Trailing spaces of the input are dropped (it starts with the origin).
StripSpaces(str) ==
    IF str # <<>> /\ str[Len(str)] = " "
    THEN StripSpaces(SubSeq(str, 1, Len(str) - 1))
    ELSE str

RECURSIVE QueryAt(_, _)
\* The position of the first "?" at or after i, or 0.
QueryAt(str, i) ==
    IF i > Len(str) THEN 0
    ELSE IF str[i] = "?" THEN i
    ELSE QueryAt(str, i + 1)

RECURSIVE SplitPath(_, _, _, _)
\* The segments of a path, cut at every "/"; the last one ends with the path.
SplitPath(path, i, cur, acc) ==
    IF i > Len(path) THEN Append(acc, cur)
    ELSE IF path[i] = "/" THEN SplitPath(path, i + 1, <<>>, Append(acc, cur))
    ELSE SplitPath(path, i + 1, Append(cur, path[i]), acc)

RECURSIVE RemoveDots(_, _, _)
\* ".." drops the segment before it, "." is skipped; either one at the end of
\* the path leaves an empty last segment.
RemoveDots(segs, i, out) ==
    IF i > Len(segs) THEN out
    ELSE LET last == IF i = Len(segs) THEN << <<>> >> ELSE <<>> IN
         IF segs[i] = <<".", ".">>
         THEN RemoveDots(segs, i + 1,
                         (IF out = <<>> THEN out ELSE SubSeq(out, 1, Len(out) - 1)) \o last)
         ELSE IF segs[i] = <<".">>
         THEN RemoveDots(segs, i + 1, out \o last)
         ELSE RemoveDots(segs, i + 1, Append(out, segs[i]))

RECURSIVE Encode(_)
\* Percent-encoding of a path segment or a query: the space becomes %20.
Encode(str) ==
    IF str = <<>> THEN ""
    ELSE (IF str[1] = " " THEN "%20" ELSE str[1]) \o Encode(Tail(str))

RECURSIVE JoinPath(_)
JoinPath(segs) ==
    IF segs = <<>> THEN "" ELSE "/" \o Encode(segs[1]) \o JoinPath(Tail(segs))

\* The path has a "." and no character that needs percent-encoding.
DotsOnly(path) ==
    /\ \E i \in 1..Len(path) : path[i] = "."
    /\ \A i \in 1..Len(path) : path[i] # " "

RECURSIVE SlashDotAt(_, _)
\* The position of the first "/" that a "." follows, at or after i, or 0.
SlashDotAt(path, i) ==
    IF i >= Len(path) THEN 0
    ELSE IF path[i] = "/" /\ path[i + 1] = "." THEN i
    ELSE SlashDotAt(path, i + 1)

\* The runtime's parser keeps a path as written when it finds nothing to do
\* in it: no "." and nothing to encode, or dots only and the first "/." is
\* followed by a character other than "." and "/".  It looks at the first
\* "/." only, so dot segments after a segment such as ".a" stay in the path.
TrivialPath(path) ==
    \/ \A i \in 1..Len(path) : path[i] \notin {".", " "}
    \/ /\ DotsOnly(path)
       /\ path[1] # "."
       /\ LET slashdot == SlashDotAt(path, 1) IN
          \/ slashdot = 0
          \/ ~(\/ slashdot + 2 > Len(path)
               \/ path[slashdot + 2] = "."
               \/ path[slashdot + 2] = "/")

\* new URL(input) for the string `input` (origin, then a path that starts
\* with "/"): the origin, the path name, and the query when there is a "?".
URL(input) ==
    LET str == StripSpaces(input)
        q == QueryAt(str, 2)
        path == SubSeq(str, 3, IF q = 0 THEN Len(str) ELSE q - 1)
        segs == RemoveDots(SplitPath(path, 1, <<>>, <<>>), 1, <<>>)
    IN [origin |-> str[1],
        pathname |-> IF TrivialPath(path) THEN "/" \o Text(path) ELSE JoinPath(segs),
        hasQuery |-> q # 0,
        query |-> IF q = 0 THEN "" ELSE Encode(SubSeq(str, q + 1, Len(str)))]

\* The address of the read (Request.url, and the url of the Response): the
\* parsed URL, serialized.
UrlHref(input) ==
    LET u == URL(input)
    IN u.origin \o u.pathname \o (IF u.hasQuery THEN "?" \o u.query ELSE "")

\* The target of the GET that is sent: origin, path name and search, and the
\* search of an empty query is empty.
RequestTarget(input) ==
    LET u == URL(input)
    IN u.origin \o u.pathname \o (IF u.query # "" THEN "?" \o u.query ELSE "")

\* A decoding that swallows the SyntaxError and yields null.
ResJsonCaught(response) ==
    IF JSONParse(response.body).ok THEN JSONParse(response.body) ELSE [ok |-> TRUE, v |-> Null]

\* A decoding that yields null unless the status is 200.
ResJsonOkOnly(response) ==
    IF response.status = 200 THEN JSONParse(response.body) ELSE [ok |-> TRUE, v |-> Null]

\* res.json(): the body parsed as JSON, whatever the status.
ResJson(response) == JSONParse(response.body)

(***************************************************************************)
(* The environment: route parameters, API requests and the remote content  *)
(* service.                                                                *)
(***************************************************************************)
\* Route parameters of one server under concurrent load, and the wider set
\* used when requests are served one at a time.
CoreIds == {<<"1">>, <<"9", "9", "9", "9", "9", "9", "9", "9", "9">>}
Ids ==
    CoreIds
    \cup {<<>>,
          <<"1", "/", ".", ".", "/", "2", "?", "x", "=", "y">>,
          <<"a", " ", "b", " ">>,
          <<".", ".">>,
          <<".", "a", "/", ".", ".", "/", "1">>,
          <<"1", "?">>}

Methods == {"GET", "POST"}
Queries == {"", "name=x"}

\* A fetch Response: its status, its body, and the address it answers (res.url).
Response(status, body, url) ==
    [t |-> "response", status |-> status, body |-> body, url |-> url]

\* The records the content service holds.
Record(n) ==
    IF n = 1
    THEN << <<"userId", N(1)>>, <<"id", N(1)>>,
            <<"title", S("sunt aut facere")>>, <<"body", S("quia et suscipit")>> >>
    ELSE << <<"userId", N(1)>>, <<"id", N(2)>>,
            <<"title", S("qui est esse")>>, <<"body", S("est rerum tempore")>> >>

\* The record a GET of `target` addresses (a query does not change it), or <<>>.
Stored(target) ==
    CASE target = "https://jsonplaceholder.typicode.com/posts/1" -> Record(1)
      [] target = "https://jsonplaceholder.typicode.com/posts/2" -> Record(2)
      [] target = "https://jsonplaceholder.typicode.com/posts/2?x=y" -> Record(2)
      [] OTHER -> <<>>

\* The service's regular answer to the read m: the stored record, the list of
\* all records for the collection, the site's home page for the root, or a
\* not-found answer carrying an empty object.
Regular(m) ==
    CASE Stored(m.target) # <<>> -> Response(200, JSONStringify(Stored(m.target)), m.url)
      [] m.target = "https://jsonplaceholder.typicode.com/posts/" ->
             Response(200, <<P("[")>> \o JSONStringify(Record(1)) \o <<P(",")>>
                           \o JSONStringify(Record(2)) \o <<P("]")>>, m.url)
      [] m.target = "https://jsonplaceholder.typicode.com/" ->
             Response(200, <<J("<!DOCTYPE html>"), J("<html>"), J("</html>")>>, m.url)
      [] OTHER -> Response(404, JSONStringify(<<>>), m.url)

\* What may come back for the read m: the regular answer, a gateway's error
\* page, or a null document.
CoreAnswers(m) ==
    {Regular(m),
     Response(502, <<J("<html>"), J("Bad Gateway"), J("</html>")>>, m.url),
     Response(200, <<L("null")>>, m.url)}

\* The wider set: further falsy documents, truthy documents that are no
\* record, a record under an error status, a truncated body.
Answers(m) ==
    CoreAnswers(m)
    \cup {Response(200, <<N(0)>>, m.url),
          Response(200, <<S("")>>, m.url),
          Response(404, <<L("false")>>, m.url),
          Response(200, <<P("["), P("]")>>, m.url),
          Response(200, JSONStringify(<< <<"title", S("untitled")>> >>), m.url),
          Response(500, JSONStringify(<< <<"title", S("t")>>, <<"body", S("b")>> >>), m.url),
          Response(200, <<P("{"), S("title"), P(":")>>, m.url)}

StaticPages == {"Home", "ImageOptimization", "About"}

Init ==
    /\ pc = [r \in Req |-> "idle"]
    /\ params = [r \in Req |-> None]
    /\ res = [r \in Req |-> None]
    /\ props = [r \in Req |-> None]
    /\ output = [r \in Req |-> None]
    /\ err = [r \in Req |-> None]
    /\ net = {}
    /\ outbound = <<>>
    /\ accepted = 0
    /\ requests = <<>>
    /\ apiRes = None
    /\ staticSeen = [p \in StaticPages |-> {}]
    /\ aboutProps = None

(***************************************************************************)
(* The dynamic page, one request at a time per slot r.                     *)
(***************************************************************************)
\* The router hands { id } to getServerSideProps, which runs to its first
\* await: the string is built and handed to fetch, which issues the GET.  Slots only name the
\* requests in progress: a new request takes the first free one.
getServerSideProps(r, id) ==
    /\ pc[r] = "idle"
    /\ \A q \in Req : q < r => pc[q] # "idle"
    /\ accepted < MaxRequests
    /\ LET ps == [id |-> id]
           read == [req |-> r, method |-> "GET", input |-> Text(FetchUrl(ps)),
                    url |-> UrlHref(FetchUrl(ps)),
                    target |-> RequestTarget(FetchUrl(ps))]
       IN /\ params' = [params EXCEPT ![r] = ps]
          /\ outbound' = Append(outbound, read)
          /\ net' = net \cup {read}
    /\ pc' = [pc EXCEPT ![r] = "fetching"]
    /\ accepted' = accepted + 1
    /\ requests' = Append(requests, id)
    /\ UNCHANGED <<res, props, output, err, apiRes, staticSeen, aboutProps>>

\* `await fetch(...)` resolves with the answer `a` to the read `m`.
FetchResolve(r, m, a) ==
    /\ pc[r] = "fetching"
    /\ m \in net
    /\ m.req = r
    /\ res' = [res EXCEPT ![r] = a]
    /\ net' = net \ {m}
    /\ pc' = [pc EXCEPT ![r] = "decoding"]
    /\ UNCHANGED <<params, props, output, err, outbound, accepted, requests,
                   apiRes, staticSeen, aboutProps>>

\* `await fetch(...)` rejects (network failure); nothing catches it.
FetchReject(r) ==
    /\ pc[r] = "fetching"
    /\ \E m \in net : m.req = r /\ net' = net \ {m}
    /\ pc' = [pc EXCEPT ![r] = "error"]
    /\ err' = [err EXCEPT ![r] = [t |-> "error", name |-> "TypeError"]]
    /\ UNCHANGED <<params, res, props, output, outbound, accepted, requests,
                   apiRes, staticSeen, aboutProps>>

\* `await res.json()` rejects: the body stream failed before the body was
\* complete (TypeError); nothing catches it.
BodyFail(r) ==
    /\ pc[r] = "decoding"
    /\ pc' = [pc EXCEPT ![r] = "error"]
    /\ err' = [err EXCEPT ![r] = [t |-> "error", name |-> "TypeError"]]
    /\ UNCHANGED <<params, res, props, output, net, outbound, accepted, requests,
                   apiRes, staticSeen, aboutProps>>

\* A decoding that keeps the decoded value in one variable of the module,
\* shared by all requests.
DecodeShared(r) ==
    /\ pc[r] = "decoding"
    /\ LET d == ResJson(res[r]) IN
       IF d.ok
       THEN /\ props' = [q \in Req |-> [post |-> d.v]]
            /\ pc' = [pc EXCEPT ![r] = "returned"]
            /\ err' = err
       ELSE /\ err' = [err EXCEPT ![r] = [t |-> "error", name |-> "SyntaxError"]]
            /\ pc' = [pc EXCEPT ![r] = "error"]
            /\ props' = props
    /\ UNCHANGED <<params, res, output, net, outbound, accepted, requests,
                   apiRes, staticSeen, aboutProps>>

\* `await res.json()` settles with the whole body read: the decoded value is
\* returned as props.post, or the SyntaxError propagates.
Decode(r) ==
    /\ pc[r] = "decoding"
    /\ LET d == ResJson(res[r]) IN
       IF d.ok
       THEN /\ props' = [props EXCEPT ![r] = [post |-> d.v]]
            /\ pc' = [pc EXCEPT ![r] = "returned"]
            /\ err' = err
       ELSE /\ err' = [err EXCEPT ![r] = [t |-> "error", name |-> "SyntaxError"]]
            /\ pc' = [pc EXCEPT ![r] = "error"]
            /\ props' = props
    /\ UNCHANGED <<params, res, output, net, outbound, accepted, requests,
                   apiRes, staticSeen, aboutProps>>

\* A render that does not wait for the data: while the fetch is pending the
\* component gets no post.
RenderEarly(r) ==
    /\ pc[r] \in {"fetching", "returned"}
    /\ output' = [output EXCEPT ![r] =
                     Post(IF props[r] = None THEN [post |-> Undefined] ELSE props[r])]
    /\ pc' = [pc EXCEPT ![r] = "rendered"]
    /\ UNCHANGED <<params, res, props, err, net, outbound, accepted, requests,
                   apiRes, staticSeen, aboutProps>>

\* The page component is rendered with the returned props.
Render(r) ==
    /\ pc[r] = "returned"
    /\ output' = [output EXCEPT ![r] = Post(props[r])]
    /\ pc' = [pc EXCEPT ![r] = "rendered"]
    /\ UNCHANGED <<params, res, props, err, net, outbound, accepted, requests,
                   apiRes, staticSeen, aboutProps>>

\* The response (page or error) has been sent; the request's data is discarded.
Finish(r) ==
    /\ pc[r] \in {"rendered", "error"}
    /\ pc' = [pc EXCEPT ![r] = "idle"]
    /\ params' = [params EXCEPT ![r] = None]
    /\ res' = [res EXCEPT ![r] = None]
    /\ props' = [props EXCEPT ![r] = None]
    /\ output' = [output EXCEPT ![r] = None]
    /\ err' = [err EXCEPT ![r] = None]
    /\ UNCHANGED <<net, outbound, accepted, requests, apiRes, staticSeen,
                   aboutProps>>

(***************************************************************************)
(* The static pages and the API route.                                     *)
(***************************************************************************)
RequestHome ==
    /\ accepted < MaxRequests
    /\ staticSeen' = [staticSeen EXCEPT !["Home"] = @ \cup {Home}]
    /\ accepted' = accepted + 1
    /\ UNCHANGED <<ssrVars, apiRes, aboutProps>>

RequestImageOptimization ==
    /\ accepted < MaxRequests
    /\ staticSeen' = [staticSeen EXCEPT !["ImageOptimization"] = @ \cup {ImageOptimization}]
    /\ accepted' = accepted + 1
    /\ UNCHANGED <<ssrVars, apiRes, aboutProps>>

\* The About page is generated: getStaticProps is called and awaited.
RequestAbout ==
    /\ accepted < MaxRequests
    /\ aboutProps = None
    /\ aboutProps' = getStaticProps
    /\ accepted' = accepted + 1
    /\ UNCHANGED <<ssrVars, apiRes, staticSeen>>

\* In a later job, About is called with the props getStaticProps resolved to.
RenderAbout ==
    /\ aboutProps # None
    /\ staticSeen' = [staticSeen EXCEPT !["About"] = @ \cup {About(aboutProps.props)}]
    /\ aboutProps' = None
    /\ UNCHANGED <<ssrVars, apiRes, accepted>>

RequestApi(method, query) ==
    /\ accepted < MaxRequests
    /\ LET req == [method |-> method, query |-> query]
       IN apiRes' = [req |-> req, res |-> handler(req)]
    /\ accepted' = accepted + 1
    /\ UNCHANGED <<ssrVars, staticSeen, aboutProps>>

\* The whole application, the dynamic page serving one request at a time,
\* over the wider sets of route parameters and answers.
Next ==
    \/ \E id \in Ids : getServerSideProps(1, id)
    \/ \E m \in net : \E a \in Answers(m) : FetchResolve(1, m, a)
    \/ FetchReject(1)
    \/ Decode(1)
    \/ BodyFail(1)
    \/ Render(1)
    \/ Finish(1)
    \/ RequestHome
    \/ RequestImageOptimization
    \/ RequestAbout
    \/ RenderAbout
    \/ \E method \in Methods : \E query \in Queries : RequestApi(method, query)

Spec == Init /\ [][Next]_vars

\* The dynamic page under concurrent load.
NextConc ==
    \/ \E r \in Req : \E id \in CoreIds : getServerSideProps(r, id)
    \/ \E r \in Req : \E m \in net : \E a \in CoreAnswers(m) : FetchResolve(r, m, a)
    \/ \E r \in Req : FetchReject(r)
    \/ \E r \in Req : Decode(r)
    \/ \E r \in Req : BodyFail(r)
    \/ \E r \in Req : Render(r)
    \/ \E r \in Req : Finish(r)

SpecConc == Init /\ [][NextConc]_vars

(***************************************************************************)
(* Properties.                                                             *)
(***************************************************************************)
PostsUrl == "https://jsonplaceholder.typicode.com/posts/"

\* The address of the read for a route parameter: the posts endpoint with the
\* id appended, as the URL parser resolves it.
ReadAddress(id) == UrlHref(<<Origin, "/", "posts", "/">> \o id)

\* The target of the GET sent for a route parameter.
ReadTarget(id) == RequestTarget(<<Origin, "/", "posts", "/">> \o id)

\* Ids the URL parser leaves as they are.
PlainIds ==
    {<<"1">>, <<"2">>, <<"9", "9", "9", "9", "9", "9", "9", "9", "9">>, <<>>,
     <<"a", "b", "c">>}

Placeholder == Elem("div", <<Str("Loading...")>>)
RecordPage(title, body) == Elem("div", <<Elem("h1", <<title>>), Elem("p", <<body>>)>>)

\* The falsy values a JSON document can be.
Falsy(v) == v \in {Null, Bool(FALSE), Num(0), Str("")}

\* What {v.k} puts into the element: the field, or undefined when v has none.
Shown(v, k) == IF v.t = "obj" /\ k \in DOMAIN v.f THEN v.f[k] ELSE Undefined

\* The body of the answer decodes to an object with a title and a body.
IsRecord(d) == d.ok /\ d.v.t = "obj" /\ {"title", "body"} \subseteq DOMAIN d.v.f

NumericIds == {<<"1">>, <<"2">>, <<"9", "9", "9", "9", "9", "9", "9", "9", "9">>}

\* C1: a request with a numeric id whose answer decodes to a record with title
\* and body is rendered as the record page, with exactly that title in the
\* heading and that body in the paragraph, and not as the placeholder.
C1_RecordRenderedVerbatim ==
    \A r \in Req :
        (/\ pc[r] = "rendered"
         /\ params[r].id \in NumericIds
         /\ IsRecord(JSONParse(res[r].body)))
        => LET v == JSONParse(res[r].body).v IN
           /\ output[r] = RecordPage(v.f["title"], v.f["body"])
           /\ output[r] # Placeholder

C1_Witness ==
    \E r \in Req :
        /\ pc[r] = "rendered"
        /\ params[r].id = <<"1">>
        /\ res[r].status = 200
        /\ output[r] = RecordPage(Str("sunt aut facere"), Str("quia et suscipit"))

\* C2: every rendered request whose lookup yielded no usable record (no object
\* with title and body), the service's not-found answer included, shows
\* exactly the placeholder.
C2_NoRecordShowsPlaceholder ==
    \A r \in Req :
        (pc[r] = "rendered" /\ ~IsRecord(JSONParse(res[r].body)))
        => output[r] = Placeholder

\* C3: N requests to the dynamic page give N outbound GETs, the i-th addressed
\* by the i-th request's id; there is no read before the first request, and the
\* answer a request holds is the answer to its own read.
C3_OneReadPerRequest ==
    /\ Len(outbound) = Len(requests)
    /\ \A i \in 1..Len(outbound) :
          /\ outbound[i].method = "GET"
          /\ outbound[i].url = ReadAddress(requests[i])
          /\ outbound[i].target = ReadTarget(requests[i])
    /\ \A r \in Req : res[r] # None => res[r].url = ReadAddress(params[r].id)

C3_Witness ==
    /\ Len(requests) = MaxRequests
    /\ Len(outbound) = MaxRequests
    /\ requests[1] # requests[2]
    /\ requests[2] = requests[3]
    /\ \E r \in Req : pc[r] = "rendered" /\ params[r].id = requests[3]

\* C4: whatever the method and the query, and after any earlier requests, the
\* API route answers 200 with the JSON body {"text":"Hello from Next.js API!"}.
C4_ApiAlwaysHello ==
    apiRes # None =>
        /\ apiRes.res.status = 200
        /\ apiRes.res.body = <<P("{"), S("text"), P(":"), S("Hello from Next.js API!"), P("}")>>

C4_Witness ==
    /\ apiRes # None
    /\ apiRes.req.method = "POST"
    /\ apiRes.req.query = "name=x"
    /\ accepted = MaxRequests
    /\ Len(requests) = 1

\* C5: each static page has produced one and the same output however often and
\* in whatever order the pages were requested, and the static pages issue no
\* outbound read (the reads are those of the dynamic page's requests).
C5_StaticPagesConstant ==
    /\ \A p \in StaticPages : Cardinality(staticSeen[p]) <= 1
    /\ Len(outbound) = Len(requests)

C5_Witness ==
    /\ accepted = MaxRequests
    /\ Len(requests) = 1
    /\ apiRes = None
    /\ staticSeen["Home"] # {}
    /\ staticSeen["About"] = {}
    /\ staticSeen["ImageOptimization"] = {}

\* C6: a request whose fetch was rejected, whose body could not be read to
\* its end or whose body is no JSON ends in the error state, with the error
\* that was thrown, no props and no output: neither the placeholder nor a
\* record page.
C6_FailuresUnhandled ==
    \A r \in Req :
        /\ (res[r] # None /\ pc[r] # "decoding" /\ ~JSONParse(res[r].body).ok)
           => (pc[r] = "error" /\ err[r] # None
               /\ err[r].name \in {"SyntaxError", "TypeError"})
        /\ (pc[r] # "idle" /\ pc[r] # "fetching" /\ res[r] = None)
           => (pc[r] = "error" /\ err[r] # None /\ err[r].name = "TypeError")
        /\ err[r] # None =>
              /\ pc[r] = "error"
              /\ err[r].name = "SyntaxError" =>
                    (res[r] # None /\ ~JSONParse(res[r].body).ok)
        /\ pc[r] = "error" => (err[r] # None /\ props[r] = None /\ output[r] = None)

C6_Witness ==
    \E r \in Req :
        /\ pc[r] = "error"
        /\ err[r].name = "SyntaxError"
        /\ res[r].status = 502
        /\ output[r] = None

\* C7: a request has one read in flight while it awaits the fetch and none
\* otherwise; it has output only once the fetch has resolved and its body is
\* decoded; and while the fetch is pending it has no output and no step of the
\* handler or the page can run.
C7_OutputAfterFetch ==
    /\ Len(outbound) <= Len(requests)
    /\ \A r \in Req :
          /\ Cardinality({m \in net : m.req = r}) = IF pc[r] = "fetching" THEN 1 ELSE 0
          /\ output[r] # None =>
                /\ pc[r] = "rendered"
                /\ res[r] # None
                /\ JSONParse(res[r].body).ok
                /\ props[r] # None
          /\ pc[r] = "fetching" =>
                /\ output[r] = None
                /\ ~ENABLED Decode(r)
                /\ ~ENABLED BodyFail(r)
                /\ ~ENABLED Render(r)
                /\ ~ENABLED Finish(r)

C7_Witness ==
    \E r, q \in Req :
        /\ pc[r] = "fetching"
        /\ output[r] = None
        /\ pc[q] = "rendered"
        /\ output[q] # None

\* C8: under any interleaving, what a request holds comes from the answer to
\* its own read: the answer is addressed by its id, its props are that answer
\* decoded, its page is rendered from those props (the stored record for id 1,
\* the empty object of the not-found answer for id 999999999, never the
\* other's), and a slot without a request holds nothing.
C8_OwnRecordOnly ==
    \A r \in Req :
        /\ pc[r] = "idle" =>
              (params[r] = None /\ res[r] = None /\ props[r] = None /\ output[r] = None)
        /\ res[r] # None => res[r].url = ReadAddress(params[r].id)
        /\ props[r] # None =>
              (res[r] # None /\ props[r] = [post |-> JSONParse(res[r].body).v])
        /\ output[r] # None =>
              /\ props[r] # None
              /\ LET v == props[r].post IN
                 output[r] = IF Falsy(v) THEN Placeholder
                             ELSE RecordPage(Shown(v, "title"), Shown(v, "body"))
        /\ (pc[r] = "rendered" /\ output[r] # Placeholder) =>
              /\ params[r].id = <<"1">> =>
                    output[r] = RecordPage(Str("sunt aut facere"), Str("quia et suscipit"))
              /\ params[r].id = <<"9", "9", "9", "9", "9", "9", "9", "9", "9">> =>
                    output[r] = RecordPage(Undefined, Undefined)

C8_Witness ==
    /\ pc[1] = "rendered"
    /\ pc[2] = "returned"
    /\ params[1].id = <<"1">>
    /\ params[2].id = <<"9", "9", "9", "9", "9", "9", "9", "9", "9">>
    /\ output[1] = RecordPage(Str("sunt aut facere"), Str("quia et suscipit"))
    /\ props[2].post.t = "obj"

C10_PlaceholderIffFalsy ==
    \A r \in Req :
        /\ pc[r] \in {"returned", "rendered"} =>
              (res[r] # None /\ JSONParse(res[r].body).ok)
        /\ (res[r] # None /\ pc[r] = "error" /\ err[r].name = "SyntaxError")
           => ~JSONParse(res[r].body).ok
        /\ pc[r] = "rendered" =>
              LET v == JSONParse(res[r].body).v IN
              /\ output[r] = Placeholder <=> Falsy(v)
              /\ ~Falsy(v) => output[r] = RecordPage(Shown(v, "title"), Shown(v, "body"))

C10_Witness ==
    \E r \in Req :
        /\ pc[r] = "rendered"
        /\ res[r].status = 404
        /\ res[r].body = <<P("{"), P("}")>>
        /\ output[r] = RecordPage(Undefined, Undefined)

====
